---- MODULE Spec2Model ----
(***************************************************************************)
(* Model of the Forecast-Order-Comparison-Tool repository:                 *)
(*   src/azure_sql.py              DatabaseConnection (connection manager  *)
(*                                 and statement executor)                 *)
(*   src/forecast_vs_order_app.py  the report script and highlight_qty     *)
(*                                                                         *)
(* Every method of DatabaseConnection is an operator that maps the manager *)
(* object, the driver's connections and the call's inputs to the manager   *)
(* afterwards, the driver's connections afterwards and what the caller     *)
(* observes: the value returned or the exception raised, the driver calls  *)
(* made (in order) and the log records written.                            *)
(*                                                                         *)
(* SQL text is a sequence of tokens.  A token is one whitespace character, *)
(* the batch delimiter "\nGO\n", the statement delimiter ";" or the text   *)
(* of one SQL statement.  The database behind the driver is a fixed fake:  *)
(* StatementResults gives the resultsets each statement produces.          *)
(***************************************************************************)
EXTENDS Naturals, Sequences, FiniteSets, TLC

VARIABLES
    db,         \* Spec: the DatabaseConnection object under test
    conns,      \* the driver's connections, by handle: [open, closes]
    script,     \* Spec: the SQL text handed to the executor operations
    inScope,    \* Spec: inside a `with db:` block
    last,       \* what the caller observed of the most recent call
    integ_db,   \* SpecReport: the manager of the integration database
    order_db,   \* SpecReport: the manager of the order database
    app,        \* SpecReport: the report script: its position and its names
    row         \* SpecHighlight: one row of the comparison table

vars == <<db, conns, script, inScope, last, integ_db, order_db, app, row>>

----------------------------------------------------------------------------
(* Bounds of the model *)

\* Spec: tokens of the SQL text under test
MaxQueryLen == 1
\* Spec: connections the driver opens in one behaviour
MaxConnects == 1
\* SpecScript: tokens of the script under test
MaxScriptLen == 3
\* SpecReport: rows of each table the database returns
MaxRows == 1
\* SpecHighlight: the largest quantity of a row
MaxQty == 5

----------------------------------------------------------------------------
(* Python values *)

\* self._connection = None
None == 0

DatabaseConnectionError == "DatabaseConnectionError"
DriverError == "pyodbc.Error"
TypeError == "TypeError"
IndexError == "IndexError"

\* An optional tuple argument: None, () or a tuple of values.
PyNone == [isNone |-> TRUE, values |-> <<>>]
PyTuple(v) == [isNone |-> FALSE, values |-> v]
\* `if params:` / `params or []`
Truthy(p) == ~p.isNone /\ p.values # <<>>

\* What a call hands back.
Value(kind, columns, rows, handle) ==
    [kind |-> kind, columns |-> columns, rows |-> rows, handle |-> handle]
NoneValue == Value("None", <<>>, <<>>, None)
Raised == Value("<raised>", <<>>, <<>>, None)
DataFrame(columns, rows) == Value("DataFrame", columns, rows, None)
EmptyDataFrame == DataFrame(<<>>, <<>>)
RowList(rows) == Value("list", <<>>, rows, None)
Handle(c) == Value("connection", <<>>, <<>>, c)
SelfValue == Value("self", <<>>, <<>>, None)

----------------------------------------------------------------------------
(* The driver boundary: calls made, in order *)

NoArgs == [passed |-> FALSE, values |-> <<>>]
Args(v) == [passed |-> TRUE, values |-> v]

\* One call into the driver (or pandas, or the identity provider).
Call(fn, arg, params, ok) == [fn |-> fn, arg |-> arg, params |-> params, ok |-> ok]

\* What the caller observes of one call of a method.
\* op(args): returned value / raised error, with the driver calls and log records.
Outcome(op, outcome, error, value, calls, logs) ==
    [op |-> op, args |-> <<>>, outcome |-> outcome, error |-> error, value |-> value,
     calls |-> calls, logs |-> logs]
Returns(op, value, calls, logs) == Outcome(op, "returned", "none", value, calls, logs)
Raises(op, error, calls, logs) == Outcome(op, "raised", error, Raised, calls, logs)
NoCall == Outcome("none", "none", "none", NoneValue, <<>>, <<>>)

\* The effect of one call: the manager, the driver's connections, the outcome.
Effect(mgr, cs, out) == [mgr |-> mgr, conns |-> cs, out |-> out]

----------------------------------------------------------------------------
(* SQL text *)

WS == " "
GO == "\nGO\n"
SEMI == ";"
SELECT_1 == "SELECT 1"
SELECT_2 == "SELECT 2 WHERE 1=0"
SELECT_3 == "SELECT 3 AS x"
UPDATE == "UPDATE t SET c = 0"
RAISERROR == "RAISERROR('failed', 16, 1)"
BADFETCH == "SELECT CAST(c AS int) FROM t"

Statements == {SELECT_2, SELECT_3, UPDATE, RAISERROR, BADFETCH}
Tokens == {WS, GO, SEMI} \cup Statements

RECURSIVE SeqsUpTo(_, _)
SeqsUpTo(S, n) ==
    IF n = 0 THEN {<<>>}
    ELSE LET shorter == SeqsUpTo(S, n - 1)
         IN shorter \cup {Append(s, t) : s \in shorter, t \in S}

\* The example of the specification: three batches joined by the delimiter.
ExampleScript == <<SELECT_1, GO, SELECT_2, GO, SELECT_3>>

Queries == SeqsUpTo(Tokens, MaxQueryLen) \cup {ExampleScript}
Scripts == SeqsUpTo(Tokens, MaxScriptLen) \cup {ExampleScript}

\* str.split(sep): the segments between the occurrences of sep (always >= 1).
RECURSIVE split(_, _)
split(s, sep) ==
    IF \A i \in 1..Len(s) : s[i] # sep THEN <<s>>
    ELSE LET i == CHOOSE k \in 1..Len(s) :
                      s[k] = sep /\ \A j \in 1..(k - 1) : s[j] # sep
         IN <<SubSeq(s, 1, i - 1)>> \o split(SubSeq(s, i + 1, Len(s)), sep)

\* What is left of a delimiter token at the edge of a stripped string.
lstripToken(t) == CASE t = "\nGO\n" -> "GO\n" [] t = "\nGO" -> "GO" [] OTHER -> t
rstripToken(t) == CASE t = "\nGO\n" -> "\nGO" [] t = "GO\n" -> "GO" [] OTHER -> t

RECURSIVE lstrip(_)
lstrip(s) ==
    IF s = <<>> THEN <<>>
    ELSE IF Head(s) = WS THEN lstrip(Tail(s))
    ELSE <<lstripToken(Head(s))>> \o Tail(s)

RECURSIVE rstrip(_)
rstrip(s) ==
    IF s = <<>> THEN <<>>
    ELSE IF s[Len(s)] = WS THEN rstrip(SubSeq(s, 1, Len(s) - 1))
    ELSE SubSeq(s, 1, Len(s) - 1) \o <<rstripToken(s[Len(s)])>>

\* str.strip()
strip(s) == rstrip(lstrip(s))

----------------------------------------------------------------------------
(* The database behind the driver: the resultsets a statement produces *)

ResultSet(kind, columns, rows) == [kind |-> kind, columns |-> columns, rows |-> rows]
\* A resultset with a column descriptor and fetchable rows.
Table(columns, rows) == ResultSet("table", columns, rows)
\* A row count: cursor.description is None, fetchall raises.
NoDescription == ResultSet("nodesc", <<>>, <<>>)
\* The statement fails: execute (first resultset) or nextset (later) raises.
SqlError == ResultSet("error", <<>>, <<>>)
\* A column descriptor, but fetching the rows fails (a conversion error).
Unfetchable(columns) == ResultSet("unfetchable", columns, <<>>)

IsGoText(t) == t \in {"\nGO\n", "GO\n", "\nGO", "GO"}

StatementResults(t) ==
    CASE t = SELECT_1 -> <<Table(<<"">>, << <<1>> >>)>>
      [] t = SELECT_2 -> <<Table(<<"">>, <<>>)>>
      [] t = SELECT_3 -> <<Table(<<"x">>, << <<3>> >>)>>
      [] t = UPDATE -> <<NoDescription>>
      [] t = RAISERROR -> <<SqlError>>
      [] t = BADFETCH -> <<Unfetchable(<<"c">>)>>
      [] t = "usp_fill" -> <<NoDescription>>
      [] t = "usp_report" -> <<NoDescription, Table(<<"n">>, << <<7>> >>)>>
      [] t = "usp_raise" -> <<SqlError>>
      [] t = "usp_fill_raise" -> <<NoDescription, SqlError>>
      [] t = "#result" -> <<Table(<<"NDC", "Qty">>, << <<1, 5>> >>)>>
      [] t = "#missing" -> <<SqlError>>
      [] t = "#corrupt" -> <<Unfetchable(<<"NDC", "Qty">>)>>
      [] OTHER -> <<>>

RECURSIVE ConcatResults(_)
ConcatResults(batch) ==
    IF batch = <<>> THEN <<>>
    ELSE StatementResults(Head(batch)) \o ConcatResults(Tail(batch))

\* The resultsets of one batch sent to the server.  The batch delimiter is
\* known to the client only: the server rejects a batch that contains it.
BatchResults(batch) ==
    IF \E i \in 1..Len(batch) : IsGoText(batch[i]) THEN <<SqlError>>
    ELSE ConcatResults(batch)

\* cursor.execute raises iff the first statement of the batch fails.
ExecuteOk(rs) == rs = <<>> \/ rs[1].kind # "error"
\* cursor.description at resultset i (None when there is none).
HasDescription(rs, i) == i <= Len(rs) /\ rs[i].kind \in {"table", "unfetchable"}
\* cursor.fetchall() at resultset i succeeds.
FetchOk(rs, i) == i <= Len(rs) /\ rs[i].kind = "table"
\* cursor.nextset() at resultset i: "True", "False" or "raise".
NextSet(rs, i) ==
    IF i >= Len(rs) THEN "False"
    ELSE IF rs[i + 1].kind = "error" THEN "raise"
    ELSE "True"

----------------------------------------------------------------------------
(* src/azure_sql.py: DatabaseConnection, the connection manager *)

\* The object: hasattr(self, '_initialized'), self._initialized, self._connection.
Manager(exists, has, init, c) ==
    [exists |-> exists, has_initialized |-> has, _initialized |-> init, _connection |-> c]
NoObject == Manager(FALSE, FALSE, FALSE, None)
NewObject == Manager(TRUE, FALSE, FALSE, None)

SQL_COPT_SS_ACCESS_TOKEN == 1256
\* credential.get_token("https://database.windows.net/").token, as UTF-8 bytes
AccessToken == <<101, 121, 74>>

\* for i in bytes(token): exptoken += bytes({i}); exptoken += bytes(1)
RECURSIVE exptoken(_)
exptoken(token) ==
    IF token = <<>> THEN <<>>
    ELSE <<Head(token), 0>> \o exptoken(Tail(token))

\* struct.pack("=i", n): four bytes, least significant first
pack_i(n) == <<n % 256, (n \div 256) % 256, (n \div 65536) % 256, (n \div 16777216) % 256>>

tokenstruct(token) == pack_i(Len(exptoken(token))) \o exptoken(token)

connection_string(server, database, driver) ==
    <<"DRIVER=", driver, ";SERVER=", server, ";DATABASE=", database>>

OpenConnection == [open |-> TRUE, closes |-> 0]

\* _setup_connection comparing the flag without regard to case.
_setup_connection_any_case(mgr, cs, server, database, driver, localRun, tokenOk, connectOk) ==
    LET get_token == Call("get_token", <<"https://database.windows.net/">>, NoArgs, tokenOk)
        connect ==
            IF localRun \notin {"LOCAL", "local"}
            THEN Call("pyodbc.connect",
                      connection_string(server, database, driver)
                          \o <<";Authentication=ActiveDirectoryMsi">>,
                      NoArgs, connectOk)
            ELSE Call("pyodbc.connect", connection_string(server, database, driver),
                      Args(<<SQL_COPT_SS_ACCESS_TOKEN>> \o tokenstruct(AccessToken)),
                      connectOk)
    IN  IF ~tokenOk
        THEN Effect(mgr, cs,
                 Raises("_setup_connection", DatabaseConnectionError,
                        <<get_token>>, <<"info", "error", "error">>))
        ELSE IF ~connectOk
        THEN Effect(mgr, cs,
                 Raises("_setup_connection", DatabaseConnectionError,
                        <<get_token, connect>>, <<"info", "info", "error", "error">>))
        ELSE Effect([mgr EXCEPT !._connection = Len(cs) + 1],
                    Append(cs, OpenConnection),
                    Returns("_setup_connection", NoneValue,
                            <<get_token, connect>>, <<"info", "info">>))

_setup_connection(mgr, cs, server, database, driver, localRun, tokenOk, connectOk) ==
    LET get_token == Call("get_token", <<"https://database.windows.net/">>, NoArgs, tokenOk)
        connect ==
            IF localRun # "LOCAL"
            THEN Call("pyodbc.connect",
                      connection_string(server, database, driver)
                          \o <<";Authentication=ActiveDirectoryMsi">>,
                      NoArgs, connectOk)
            ELSE Call("pyodbc.connect", connection_string(server, database, driver),
                      Args(<<SQL_COPT_SS_ACCESS_TOKEN>> \o tokenstruct(AccessToken)),
                      connectOk)
    IN  IF ~tokenOk
        THEN Effect(mgr, cs,
                 Raises("_setup_connection", DatabaseConnectionError,
                        <<get_token>>, <<"info", "error", "error">>))
        ELSE IF ~connectOk
        THEN Effect(mgr, cs,
                 Raises("_setup_connection", DatabaseConnectionError,
                        <<get_token, connect>>, <<"info", "info", "error", "error">>))
        ELSE Effect([mgr EXCEPT !._connection = Len(cs) + 1],
                    Append(cs, OpenConnection),
                    Returns("_setup_connection", NoneValue,
                            <<get_token, connect>>, <<"info", "info">>))

__init__(mgr, cs, server, database, driver, localRun, tokenOk, connectOk) ==
    IF ~mgr.has_initialized
    THEN LET e == _setup_connection(
                      [mgr EXCEPT !.has_initialized = TRUE, !._initialized = TRUE,
                                  !._connection = None],
                      cs, server, database, driver, localRun, tokenOk, connectOk)
         IN Effect(e.mgr, e.conns, [e.out EXCEPT !.op = "__init__"])
    ELSE Effect(mgr, cs, Returns("__init__", NoneValue, <<>>, <<>>))

\* get_connection without the check for a held connection.
get_connection_unchecked(mgr, cs) ==
    Effect(mgr, cs, Returns("get_connection", Handle(mgr._connection), <<>>, <<>>))

get_connection(mgr, cs) ==
    IF mgr._connection = None
    THEN Effect(mgr, cs, Raises("get_connection", DatabaseConnectionError, <<>>, <<>>))
    ELSE Effect(mgr, cs, Returns("get_connection", Handle(mgr._connection), <<>>, <<>>))

\* close_connection that closes the handle but keeps holding it.
close_connection_keeps_handle(mgr, cs) ==
    IF mgr._connection # None
    THEN Effect([mgr EXCEPT !._initialized = FALSE],
                [cs EXCEPT ![mgr._connection] =
                     [open |-> FALSE, closes |-> @.closes + 1]],
                Returns("close_connection", NoneValue,
                        <<Call("connection.close", <<>>, NoArgs, TRUE)>>, <<>>))
    ELSE Effect(mgr, cs, Returns("close_connection", NoneValue, <<>>, <<>>))

close_connection(mgr, cs) ==
    IF mgr._connection # None
    THEN Effect([mgr EXCEPT !._connection = None, !._initialized = FALSE],
                [cs EXCEPT ![mgr._connection] =
                     [open |-> FALSE, closes |-> @.closes + 1]],
                Returns("close_connection", NoneValue,
                        <<Call("connection.close", <<>>, NoArgs, TRUE)>>, <<>>))
    ELSE Effect(mgr, cs, Returns("close_connection", NoneValue, <<>>, <<>>))

__enter__(mgr, cs) == Effect(mgr, cs, Returns("__enter__", SelfValue, <<>>, <<"info">>))

\* __exit__ that closes and then returns True, suppressing the exception.
__exit__suppressing(mgr, cs, exc_type) ==
    LET e == close_connection(mgr, cs)
    IN  Effect(e.mgr, e.conns,
               Returns("__exit__", Value("True", <<>>, <<>>, None), e.out.calls, <<"info">>))

\* __exit__ returns None
__exit__(mgr, cs, exc_type) ==
    LET e == close_connection(mgr, cs)
    IN  Effect(e.mgr, e.conns, Returns("__exit__", NoneValue, e.out.calls, <<"info">>))

\* `with db: body`, leaving the block: __exit__ is called with the exception
\* the body raised (or none); the exception is re-raised unless __exit__
\* returned a true value.
with_exit(mgr, cs, exc_type) ==
    LET e == __exit__(mgr, cs, exc_type)
    IN  IF exc_type # "none" /\ e.out.value.kind \in {"None", "False"}
        THEN Effect(e.mgr, e.conns, Raises("__exit__", exc_type, e.out.calls, e.out.logs))
        ELSE e

----------------------------------------------------------------------------
(* src/azure_sql.py: DatabaseConnection, the statement executor *)

cursor_call(ok) == Call("connection.cursor", <<>>, NoArgs, ok)
execute_call(sql, params, ok) == Call("cursor.execute", sql, params, ok)
nextset_call(ok) == Call("cursor.nextset", <<>>, NoArgs, ok)
fetchall_call(ok) == Call("cursor.fetchall", <<>>, NoArgs, ok)
close_call == Call("cursor.close", <<>>, NoArgs, TRUE)
commit_call(ok) == Call("connection.commit", <<>>, NoArgs, ok)

NotEstablished(op, mgr, cs) ==
    Effect(mgr, cs, Raises(op, DatabaseConnectionError, <<>>, <<>>))

\* read_sql dropping the connection when the query fails.
read_sql_on_dropping(mgr, cs, query, rs) ==
    LET ok == ExecuteOk(rs) /\ HasDescription(rs, 1) /\ FetchOk(rs, 1)
        calls == <<Call("pd.read_sql", query, NoArgs, ok)>>
    IN  IF mgr._connection = None THEN NotEstablished("read_sql", mgr, cs)
        ELSE IF ~ok
        THEN Effect([mgr EXCEPT !._connection = None], cs,
                    Raises("read_sql", DatabaseConnectionError, calls, <<>>))
        ELSE Effect(mgr, cs,
                 Returns("read_sql", DataFrame(rs[1].columns, rs[1].rows), calls, <<>>))

\* read_sql when the database answers the query with the resultsets rs:
\* pd.read_sql builds the table from the first resultset, or fails.
read_sql_on(mgr, cs, query, rs) ==
    LET ok == ExecuteOk(rs) /\ HasDescription(rs, 1) /\ FetchOk(rs, 1)
        calls == <<Call("pd.read_sql", query, NoArgs, ok)>>
    IN  IF mgr._connection = None THEN NotEstablished("read_sql", mgr, cs)
        ELSE IF ~ok
        THEN Effect(mgr, cs, Raises("read_sql", DatabaseConnectionError, calls, <<>>))
        ELSE Effect(mgr, cs,
                 Returns("read_sql", DataFrame(rs[1].columns, rs[1].rows), calls, <<>>))

read_sql(mgr, cs, query) == read_sql_on(mgr, cs, query, BatchResults(query))

\* A finally clause that never closes the cursor.
finally_leaks(cursor) == <<>>

\* finally: if cursor: cursor.close()  (cursor: whether one was obtained)
execute_query_finally(cursor) == IF cursor THEN <<close_call>> ELSE <<>>

execute_query(mgr, cs, query, params, cursorOk) ==
    LET op == "execute_query"
        rs == BatchResults(query)
        \* cursor.execute(query, params or [])
        execute == execute_call(query,
                       Args(IF Truthy(params) THEN params.values ELSE <<>>),
                       ExecuteOk(rs))
        finally == execute_query_finally(TRUE)
    IN  IF mgr._connection = None THEN NotEstablished(op, mgr, cs)
        ELSE IF ~cursorOk
        THEN Effect(mgr, cs,
                 Raises(op, DatabaseConnectionError,
                        <<cursor_call(FALSE)>> \o execute_query_finally(FALSE), <<>>))
        ELSE IF ~ExecuteOk(rs)
        THEN Effect(mgr, cs,
                 Raises(op, DatabaseConnectionError,
                        <<cursor_call(TRUE), execute>> \o finally, <<>>))
        ELSE IF ~FetchOk(rs, 1)
        THEN Effect(mgr, cs,
                 Raises(op, DatabaseConnectionError,
                        <<cursor_call(TRUE), execute, fetchall_call(FALSE)>> \o finally,
                        <<>>))
        ELSE Effect(mgr, cs,
                 Returns(op, RowList(rs[1].rows),
                         <<cursor_call(TRUE), execute, fetchall_call(TRUE)>> \o finally,
                         <<>>))

\* The `parameters` argument: a dict, a list, or anything else (None, a tuple).
ParamDict(keys, values) == [shape |-> "dict", keys |-> keys, values |-> values]
ParamList(values) == [shape |-> "list", keys |-> <<>>, values |-> values]
ParamOther == [shape |-> "other", keys |-> <<>>, values |-> <<>>]

\* ", ".join(f"@{key} = ?" for key in parameters.keys())
RECURSIVE named_placeholders(_)
named_placeholders(keys) ==
    IF keys = <<>> THEN <<>>
    ELSE <<"@", Head(keys), " = ?">>
         \o (IF Tail(keys) = <<>> THEN <<>> ELSE <<", ">> \o named_placeholders(Tail(keys)))

\* ", ".join(["?"] * len(parameters))
RECURSIVE positional_placeholders(_)
positional_placeholders(n) ==
    IF n = 0 THEN <<>>
    ELSE <<"?">> \o (IF n = 1 THEN <<>> ELSE <<", ">> \o positional_placeholders(n - 1))

param_placeholders(parameters) ==
    CASE parameters.shape = "dict" -> named_placeholders(parameters.keys)
      [] parameters.shape = "list" -> positional_placeholders(Len(parameters.values))
      [] OTHER -> <<>>

param_values(parameters) ==
    IF parameters.shape \in {"dict", "list"} THEN parameters.values ELSE <<>>

\* EXEC {procedure_name} {param_placeholders}; SELECT * FROM {temp_table_name};
sql_query(procedure_name, parameters, temp_table_name) ==
    <<"\n            EXEC ", procedure_name, WS>> \o param_placeholders(parameters)
        \o <<";\n            SELECT * FROM ", temp_table_name, ";\n            ">>

\* The loop with cursor.nextset() inside the inner try: a failing nextset is
\* swallowed and ends the loop as if there were no more resultsets.
RECURSIVE first_convertible_swallowing(_, _)
first_convertible_swallowing(rs, i) ==
    LET fetch == IF HasDescription(rs, i) THEN <<fetchall_call(FetchOk(rs, i))>> ELSE <<>>
        nxt == NextSet(rs, i)
    IN  IF HasDescription(rs, i) /\ FetchOk(rs, i)
        THEN [calls |-> fetch, value |-> DataFrame(rs[i].columns, rs[i].rows),
              logs |-> <<>>]
        ELSE IF nxt \in {"raise", "False"}
        THEN [calls |-> fetch \o <<nextset_call(nxt = "False")>>,
              value |-> EmptyDataFrame, logs |-> <<"warning">>]
        ELSE LET rest == first_convertible_swallowing(rs, i + 1)
             IN [rest EXCEPT !.calls = fetch \o <<nextset_call(TRUE)>> \o @]

\* The loop giving up at the first resultset that does not convert.
first_convertible_giving_up(rs, i) ==
    LET fetch == IF HasDescription(rs, i) THEN <<fetchall_call(FetchOk(rs, i))>> ELSE <<>>
    IN  IF HasDescription(rs, i) /\ FetchOk(rs, i)
        THEN [calls |-> fetch, value |-> DataFrame(rs[i].columns, rs[i].rows),
              logs |-> <<>>]
        ELSE [calls |-> fetch, value |-> EmptyDataFrame, logs |-> <<"warning">>]

\* The while loop of call_stored_procedure_with_select from resultset i: the
\* first resultset that converts is returned; a failed conversion is
\* swallowed; a failing nextset leaves the loop by the outer except.
RECURSIVE first_convertible(_, _)
first_convertible(rs, i) ==
    LET fetch == IF HasDescription(rs, i) THEN <<fetchall_call(FetchOk(rs, i))>> ELSE <<>>
        nxt == NextSet(rs, i)
    IN  IF HasDescription(rs, i) /\ FetchOk(rs, i)
        THEN [calls |-> fetch, value |-> DataFrame(rs[i].columns, rs[i].rows),
              logs |-> <<>>]
        ELSE IF nxt = "raise"
        THEN [calls |-> fetch \o <<nextset_call(FALSE)>>, value |-> NoneValue,
              logs |-> <<"error">>]
        ELSE IF nxt = "False"
        THEN [calls |-> fetch \o <<nextset_call(TRUE)>>, value |-> EmptyDataFrame,
              logs |-> <<"warning">>]
        ELSE LET rest == first_convertible(rs, i + 1)
             IN [rest EXCEPT !.calls = fetch \o <<nextset_call(TRUE)>> \o @]

call_stored_procedure_with_select(mgr, cs, procedure_name, parameters, temp_table_name, cursorOk) ==
    LET op == "call_stored_procedure_with_select"
        sql == sql_query(procedure_name, parameters, temp_table_name)
        rs == BatchResults(sql)
        execute == execute_call(sql, Args(param_values(parameters)), ExecuteOk(rs))
        found == first_convertible(rs, 1)
    IN  IF mgr._connection = None THEN NotEstablished(op, mgr, cs)
        ELSE IF ~cursorOk
        THEN Effect(mgr, cs, Returns(op, NoneValue, <<cursor_call(FALSE)>>, <<"error">>))
        ELSE IF ~ExecuteOk(rs)
        THEN Effect(mgr, cs,
                 Returns(op, NoneValue, <<cursor_call(TRUE), execute>>, <<"error">>))
        ELSE Effect(mgr, cs,
                 Returns(op, found.value,
                         <<cursor_call(TRUE), execute>> \o found.calls, found.logs))

NonBlank(text) == strip(text) # <<>>

\* The batches without the `if batch.strip()` filter.
batches_of_keeping_blank(text) ==
    LET kept == split(text, GO)
    IN  [i \in 1..Len(kept) |-> strip(kept[i])]

\* [batch.strip() for batch in script.split("\nGO\n") if batch.strip()]
batches_of(text) ==
    LET kept == SelectSeq(split(text, GO), NonBlank)
    IN  [i \in 1..Len(kept) |-> strip(kept[i])]

\* `while cursor.nextset(): pass` from resultset i: the calls made, and whether
\* the loop ended without a driver error.
RECURSIVE drain(_, _)
drain(rs, i) ==
    LET nxt == NextSet(rs, i)
    IN  IF nxt = "raise" THEN [calls |-> <<nextset_call(FALSE)>>, ok |-> FALSE]
        ELSE IF nxt = "False" THEN [calls |-> <<nextset_call(TRUE)>>, ok |-> TRUE]
        ELSE LET rest == drain(rs, i + 1)
             IN [rest EXCEPT !.calls = <<nextset_call(TRUE)>> \o @]

\* The loop over the earlier batches without `while cursor.nextset(): pass`.
RECURSIVE earlier_batches_no_drain(_, _)
earlier_batches_no_drain(batches, k) ==
    IF k >= Len(batches) THEN [calls |-> <<>>, ok |-> TRUE]
    ELSE LET rs == BatchResults(batches[k])
             execute == execute_call(batches[k], NoArgs, ExecuteOk(rs))
         IN  IF ~ExecuteOk(rs) THEN [calls |-> <<execute>>, ok |-> FALSE]
             ELSE LET rest == earlier_batches_no_drain(batches, k + 1)
                  IN [rest EXCEPT !.calls = <<execute>> \o @]

\* `for batch in batches[:-1]: cursor.execute(batch); while cursor.nextset(): pass`
\* from batch k on; a driver error ends the loop.
RECURSIVE earlier_batches(_, _)
earlier_batches(batches, k) ==
    IF k >= Len(batches) THEN [calls |-> <<>>, ok |-> TRUE]
    ELSE LET rs == BatchResults(batches[k])
             execute == execute_call(batches[k], NoArgs, ExecuteOk(rs))
             drained == drain(rs, 1)
         IN  IF ~ExecuteOk(rs) THEN [calls |-> <<execute>>, ok |-> FALSE]
             ELSE IF ~drained.ok
             THEN [calls |-> <<execute>> \o drained.calls, ok |-> FALSE]
             ELSE LET rest == earlier_batches(batches, k + 1)
                  IN [rest EXCEPT !.calls = <<execute>> \o drained.calls \o @]

\* No advance at all: the cursor stays at the first resultset.
seek_description_stays(rs, i) == [calls |-> <<>>, ok |-> TRUE, at |-> i]

\* `while cursor.description is None and cursor.nextset(): pass` from
\* resultset i: the calls made, whether a driver error ended it, and the
\* resultset the cursor is left at.
RECURSIVE seek_description(_, _)
seek_description(rs, i) ==
    LET nxt == NextSet(rs, i)
    IN  IF HasDescription(rs, i) THEN [calls |-> <<>>, ok |-> TRUE, at |-> i]
        ELSE IF nxt = "raise"
        THEN [calls |-> <<nextset_call(FALSE)>>, ok |-> FALSE, at |-> i]
        ELSE IF nxt = "False"
        THEN [calls |-> <<nextset_call(TRUE)>>, ok |-> TRUE, at |-> Len(rs) + 1]
        ELSE LET rest == seek_description(rs, i + 1)
             IN [rest EXCEPT !.calls = <<nextset_call(TRUE)>> \o @]

run_script_and_get_last_result(mgr, cs, text, params, cursorOk) ==
    LET op == "run_script_and_get_last_result"
        batches == batches_of(text)
        earlier == earlier_batches(batches, 1)
        final == batches[Len(batches)]
        rs == BatchResults(final)
        execute == execute_call(final,
                       IF Truthy(params) THEN Args(params.values) ELSE NoArgs,
                       ExecuteOk(rs))
        sought == seek_description(rs, 1)
        opened == <<cursor_call(TRUE)>>
        \* finally: cursor.close()
        finally == <<close_call>>
    IN  IF mgr._connection = None THEN NotEstablished(op, mgr, cs)
        ELSE IF ~cursorOk
        THEN Effect(mgr, cs, Raises(op, DriverError, <<cursor_call(FALSE)>>, <<>>))
        ELSE IF ~earlier.ok
        THEN Effect(mgr, cs,
                 Raises(op, DriverError, opened \o earlier.calls \o finally, <<>>))
        ELSE IF batches = <<>>
        THEN Effect(mgr, cs, Raises(op, IndexError, opened \o finally, <<>>))
        ELSE IF ~ExecuteOk(rs)
        THEN Effect(mgr, cs,
                 Raises(op, DriverError,
                        opened \o earlier.calls \o <<execute>> \o finally, <<>>))
        ELSE IF ~sought.ok
        THEN Effect(mgr, cs,
                 Raises(op, DriverError,
                        opened \o earlier.calls \o <<execute>> \o sought.calls
                            \o finally, <<>>))
        ELSE IF ~HasDescription(rs, sought.at)
        THEN Effect(mgr, cs,
                 Raises(op, TypeError,
                        opened \o earlier.calls \o <<execute>> \o sought.calls
                            \o finally, <<>>))
        ELSE IF ~FetchOk(rs, sought.at)
        THEN Effect(mgr, cs,
                 Raises(op, DriverError,
                        opened \o earlier.calls \o <<execute>> \o sought.calls
                            \o <<fetchall_call(FALSE)>> \o finally, <<>>))
        ELSE Effect(mgr, cs,
                 Returns(op, DataFrame(rs[sought.at].columns, rs[sought.at].rows),
                         opened \o earlier.calls \o <<execute>> \o sought.calls
                             \o <<fetchall_call(TRUE)>> \o finally, <<>>))

\* The loop going on to the next statement after one has failed.
RECURSIVE execute_statements_continuing(_, _)
execute_statements_continuing(stmts, k) ==
    IF k > Len(stmts) THEN [calls |-> <<>>, ok |-> TRUE]
    ELSE IF ~NonBlank(stmts[k]) THEN execute_statements_continuing(stmts, k + 1)
    ELSE LET ok == ExecuteOk(BatchResults(stmts[k]))
             execute == execute_call(stmts[k], NoArgs, ok)
             rest == execute_statements_continuing(stmts, k + 1)
         IN  [rest EXCEPT !.calls = <<execute>> \o @]

\* `for stmt in script.strip().split(';'): if stmt.strip(): cursor.execute(stmt)`
\* from statement k on; a driver error ends the loop.
RECURSIVE execute_statements(_, _)
execute_statements(stmts, k) ==
    IF k > Len(stmts) THEN [calls |-> <<>>, ok |-> TRUE]
    ELSE IF ~NonBlank(stmts[k]) THEN execute_statements(stmts, k + 1)
    ELSE LET ok == ExecuteOk(BatchResults(stmts[k]))
             execute == execute_call(stmts[k], NoArgs, ok)
         IN  IF ~ok THEN [calls |-> <<execute>>, ok |-> FALSE]
             ELSE LET rest == execute_statements(stmts, k + 1)
                  IN [rest EXCEPT !.calls = <<execute>> \o @]

run_multistatement_script(mgr, cs, text, cursorOk, commitOk) ==
    LET op == "run_multistatement_script"
        executed == execute_statements(split(strip(text), SEMI), 1)
        opened == <<cursor_call(TRUE)>>
    IN  IF mgr._connection = None THEN NotEstablished(op, mgr, cs)
        ELSE IF ~cursorOk
        THEN Effect(mgr, cs, Raises(op, DriverError, <<cursor_call(FALSE)>>, <<>>))
        ELSE IF ~executed.ok
        THEN Effect(mgr, cs, Raises(op, DriverError, opened \o executed.calls, <<>>))
        ELSE IF ~commitOk
        THEN Effect(mgr, cs,
                 Raises(op, DriverError,
                        opened \o executed.calls \o <<commit_call(FALSE)>>, <<>>))
        ELSE Effect(mgr, cs,
                 Returns(op, NoneValue,
                         opened \o executed.calls \o <<commit_call(TRUE)>>, <<>>))

\* The arguments the report script constructs its managers with (lines 9-22).
Server == "sql-ago-aiq-prd-use.database.windows.net"
Driver == "{ODBC Driver 17 for SQL Server}"
Databases == {"sqldb-integration-management-prd", "sqldb-order-management-prd"}

----------------------------------------------------------------------------
(* src/forecast_vs_order_app.py: the comparison of one row *)

\* A quantity cell: a number, or NaN (NULL in the database, or the side of
\* an outer join that has no row).
Num(v) == [na |-> FALSE, v |-> v]
NaN == [na |-> TRUE, v |-> 0]
\* a == b on cells: NaN equals nothing
PyEq(a, b) == ~a.na /\ ~b.na /\ a.v = b.v
\* Series.fillna(0) on one cell
fillna(cell) == IF cell.na THEN Num(0) ELSE cell

ComparisonColumns == <<"ProductName", "NDC", "ForecastedOrderQty", "OrderedQty">>
ComparisonRow(product, ndc, forecast, ordered) ==
    [ProductName |-> product, NDC |-> ndc, ForecastedOrderQty |-> forecast,
     OrderedQty |-> ordered]

\* [style] * len(row)
Styles(style) == [i \in 1..Len(ComparisonColumns) |-> style]

\* highlight_qty with the first test dropped: equal quantities are green even
\* when both are zero.
highlight_qty_no_zero_test(r) ==
    IF PyEq(r.ForecastedOrderQty, r.OrderedQty)
    THEN Styles("background-color: lightgreen")
    ELSE Styles("background-color: lightyellow")

highlight_qty(r) ==
    IF PyEq(r.ForecastedOrderQty, Num(0)) \/ PyEq(r.OrderedQty, Num(0))
    THEN Styles("background-color: lightcoral")
    ELSE IF PyEq(r.ForecastedOrderQty, r.OrderedQty)
    THEN Styles("background-color: lightgreen")
    ELSE Styles("background-color: lightyellow")

----------------------------------------------------------------------------
(* src/forecast_vs_order_app.py: the report script *)

Sites == <<"", "Akron", "Beachwood", "Lorain", "Middleburg", "Westlake", "Cuyahoga">>

site_query(selected_site) ==
    <<"SELECT SiteCode FROM contractDW.DimSite WHERE PracticeCode = 293 AND Name LIKE '%",
      selected_site, "%'">>
forecast_query(site_id) ==
    <<"SELECT fd.ProductName, fd.NDC, fd.OrderQty, ... FROM [iq].[ForecastDetails] fd JOIN [iq].[ForecastHistory] fh ON fd.ForecastId = fh.Id WHERE ... AND fh.SiteId = ",
      site_id>>
status_query(site_id) ==
    <<"SELECT OrderStatusId, PurchaseOrderId FROM dbo.PurchaseOrderDetails pod WHERE IsLatest = 1 AND PurchaseOrderId IN (SELECT id FROM dbo.PurchaseOrders WHERE SiteId = ",
      site_id, " AND ...)">>
orders_query(site_id) ==
    <<"SELECT pli.NDC, pli.DrugName, pli.Quantity FROM dbo.PoLineItems pli WHERE PurchaseOrderId IN (SELECT id FROM dbo.PurchaseOrders WHERE SiteId = ",
      site_id, " AND ...)">>

\* What the database may hold: the answers to the four queries.
SiteCodes == {"2931"}
NDCs == <<"00001", "00002">>
NDCSet == {NDCs[i] : i \in 1..Len(NDCs)}
DbQuantities == {NaN, Num(0), Num(3), Num(5)}
StatusIds == {1, 2, 6}

SiteColumns == <<"SiteCode">>
ForecastColumns ==
    <<"ProductName", "NDC", "OrderQty", "OrderUOM", "ParMin", "ParMax", "ForecastQty",
      "DispensedQty", "PendingTransferQty", "PendingOrderedQty", "CurrentInventoryQty">>
StatusColumns == <<"OrderStatusId", "PurchaseOrderId">>
OrderColumns == <<"NDC", "DrugName", "Quantity">>

ForecastRows ==
    {<<"product", n, q, "EA", Num(0), Num(9), q, Num(0), Num(0), Num(0), Num(0)>> :
        n \in NDCSet, q \in DbQuantities}
StatusRows == {<<st, "PO-1">> : st \in StatusIds}
OrderRows == {<<n, "drug", q>> : n \in NDCSet, q \in DbQuantities}

Answers(columns, rows) ==
    {<<SqlError>>} \cup {<<Table(columns, t)>> : t \in SeqsUpTo(rows, MaxRows)}

\* df[name] of row r
ColumnIndex(df, name) == CHOOSE i \in 1..Len(df.columns) : df.columns[i] = name
Cell(df, r, name) == df.rows[r][ColumnIndex(df, name)]

\* df.rename(columns={old: new})
rename(df, old, new) ==
    [df EXCEPT !.columns = [i \in 1..Len(df.columns) |->
                               IF df.columns[i] = old THEN new ELSE df.columns[i]]]

\* The guard testing for status 1 only.
InvalidStatus_without_6(status_df) ==
    \E r \in 1..Len(status_df.rows) : Cell(status_df, r, "OrderStatusId") \in {1}

\* any(status_df["OrderStatusId"].isin([1, 6]))
InvalidStatus(status_df) ==
    \E r \in 1..Len(status_df.rows) : Cell(status_df, r, "OrderStatusId") \in {1, 6}

\* The rows of df whose NDC is ndc, in order.
RECURSIVE RowsWithKey(_, _, _)
RowsWithKey(df, ndc, r) ==
    IF r > Len(df.rows) THEN <<>>
    ELSE (IF Cell(df, r, "NDC") = ndc THEN <<r>> ELSE <<>>) \o RowsWithKey(df, ndc, r + 1)

\* One key of the outer join: every pairing of its forecast rows with its
\* order rows, or the rows of the one side with NaN for the other.
RECURSIVE JoinKey(_, _, _, _, _)
JoinKey(forecast, orders, ndc, L, R) ==
    IF L = <<>>
    THEN IF RowsWithKey(forecast, ndc, 1) # <<>> THEN <<>>
         ELSE [j \in 1..Len(R) |->
                  ComparisonRow("NaN", ndc, NaN, Cell(orders, R[j], "OrderedQty"))]
    ELSE (IF R = <<>>
          THEN <<ComparisonRow(Cell(forecast, Head(L), "ProductName"), ndc,
                               Cell(forecast, Head(L), "ForecastedOrderQty"), NaN)>>
          ELSE [j \in 1..Len(R) |->
                   ComparisonRow(Cell(forecast, Head(L), "ProductName"), ndc,
                                 Cell(forecast, Head(L), "ForecastedOrderQty"),
                                 Cell(orders, R[j], "OrderedQty"))])
         \o (IF Tail(L) = <<>> THEN <<>> ELSE JoinKey(forecast, orders, ndc, Tail(L), R))

\* pd.merge(forecast[[ProductName, NDC, ForecastedOrderQty]],
\*          orders[[NDC, OrderedQty]], on="NDC", how="outer"), keys in order
RECURSIVE merge_outer(_, _, _)
merge_outer(forecast, orders, k) ==
    IF k > Len(NDCs) THEN <<>>
    ELSE JoinKey(forecast, orders, NDCs[k],
                 RowsWithKey(forecast, NDCs[k], 1), RowsWithKey(orders, NDCs[k], 1))
         \o merge_outer(forecast, orders, k + 1)

\* Both quantity columns .fillna(0)
fill_quantities(rows) ==
    [i \in 1..Len(rows) |->
        [rows[i] EXCEPT !.ForecastedOrderQty = fillna(@), !.OrderedQty = fillna(@)]]

\* comparison_df_simple.style.apply(highlight_qty, axis=1)
styled(rows) == [i \in 1..Len(rows) |-> [row |-> rows[i], style |-> highlight_qty(rows[i])]]

NoFrame == DataFrame(<<>>, <<>>)
App(pc, selected_site, site_id, forecast_df, status_df, orders_df, comparison, reads, shown) ==
    [pc |-> pc, selected_site |-> selected_site, site_id |-> site_id,
     forecast_df |-> forecast_df, status_df |-> status_df, orders_df |-> orders_df,
     comparison |-> comparison, reads |-> reads, shown |-> shown]
\* The script before its first line, and the script not run at all.
AppStart == App("integ_db", "", "", NoFrame, NoFrame, NoFrame, <<>>, <<>>, <<>>)
NoApp == [AppStart EXCEPT !.pc = "not run"]
NoRow ==
    [stage |-> "none", joined |-> ComparisonRow("", "", NaN, NaN),
     r |-> ComparisonRow("", "", NaN, NaN), style |-> <<>>]

InitReport ==
    /\ db = NoObject
    /\ conns = <<>>
    /\ script = <<>>
    /\ inScope = FALSE
    /\ last = NoCall
    /\ integ_db = NoObject
    /\ order_db = NoObject
    /\ app = AppStart
    /\ row = NoRow

\* An uncaught exception ends the run of the script.
After(out, pc) == IF out.outcome = "raised" THEN "failed" ELSE pc

\* lines 9-14: integ_db = DatabaseConnection(..., localRun='LOCAL')
CreateIntegDb ==
    \E tokenOk, connectOk \in BOOLEAN :
        LET e == __init__(NewObject, conns, Server, "sqldb-integration-management-prd",
                          Driver, "LOCAL", tokenOk, connectOk)
        IN  /\ app.pc = "integ_db"
            /\ integ_db' = e.mgr
            /\ conns' = e.conns
            /\ last' = e.out
            /\ app' = [app EXCEPT !.pc = After(e.out, "order_db")]
            /\ UNCHANGED <<db, script, inScope, order_db, row>>

\* lines 17-22: order_db = DatabaseConnection(..., localRun='LOCAL')
CreateOrderDb ==
    \E tokenOk, connectOk \in BOOLEAN :
        LET e == __init__(NewObject, conns, Server, "sqldb-order-management-prd",
                          Driver, "LOCAL", tokenOk, connectOk)
        IN  /\ app.pc = "order_db"
            /\ order_db' = e.mgr
            /\ conns' = e.conns
            /\ last' = e.out
            /\ app' = [app EXCEPT !.pc = After(e.out, "select_site")]
            /\ UNCHANGED <<db, script, inScope, integ_db, row>>

\* lines 34-40: the site chosen in the select box; none chosen stops the run
SelectSite ==
    \E s \in 1..Len(Sites) :
        /\ app.pc = "select_site"
        /\ app' = IF Sites[s] = ""
                  THEN [app EXCEPT !.pc = "stopped",
                                   !.shown = Append(@, "info: Please select a site")]
                  ELSE [app EXCEPT !.pc = "site_query", !.selected_site = Sites[s]]
        /\ UNCHANGED <<db, conns, script, inScope, last, integ_db, order_db, row>>

\* lines 45-57: the site's code from the integration database
SiteQuery ==
    \E rs \in Answers(SiteColumns, {<<c>> : c \in SiteCodes}) :
        LET e == read_sql_on(integ_db, conns, site_query(app.selected_site), rs)
            site_df == e.out.value
            issued == [app EXCEPT !.reads = Append(@, <<"integ_db", "site_query">>)]
        IN  /\ app.pc = "site_query"
            /\ last' = e.out
            /\ app' = IF e.out.outcome = "raised" THEN [issued EXCEPT !.pc = "failed"]
                      ELSE IF site_df.rows = <<>>
                      THEN [issued EXCEPT !.pc = "stopped",
                                          !.shown = Append(@, "error: No site found")]
                      ELSE [issued EXCEPT !.pc = "forecast_query",
                                          !.site_id = Cell(site_df, 1, "SiteCode")]
            /\ UNCHANGED <<db, conns, script, inScope, integ_db, order_db, row>>

\* lines 62-88: yesterday's forecast from the integration database
ForecastQuery ==
    \E rs \in Answers(ForecastColumns, ForecastRows) :
        LET e == read_sql_on(integ_db, conns, forecast_query(app.site_id), rs)
            issued == [app EXCEPT !.reads = Append(@, <<"integ_db", "forecast_query">>)]
        IN  /\ app.pc = "forecast_query"
            /\ last' = e.out
            /\ app' = IF e.out.outcome = "raised" THEN [issued EXCEPT !.pc = "failed"]
                      ELSE [issued EXCEPT
                               !.pc = "status_query",
                               !.forecast_df = rename(e.out.value, "OrderQty",
                                                      "ForecastedOrderQty"),
                               !.shown = Append(@, "Forecasted Orders (Yesterday)")]
            /\ UNCHANGED <<db, conns, script, inScope, integ_db, order_db, row>>

\* lines 93-109: the order statuses from the order database, and the guard
StatusQuery ==
    \E rs \in Answers(StatusColumns, StatusRows) :
        LET e == read_sql_on(order_db, conns, status_query(app.site_id), rs)
            issued == [app EXCEPT !.reads = Append(@, <<"order_db", "status_query">>)]
        IN  /\ app.pc = "status_query"
            /\ last' = e.out
            /\ app' = IF e.out.outcome = "raised" THEN [issued EXCEPT !.pc = "failed"]
                      ELSE IF InvalidStatus(e.out.value)
                      THEN [issued EXCEPT !.pc = "stopped",
                                          !.status_df = e.out.value,
                                          !.shown = Append(@, "error: invalid status (1 or 6)")]
                      ELSE [issued EXCEPT !.pc = "orders_query",
                                          !.status_df = e.out.value]
            /\ UNCHANGED <<db, conns, script, inScope, integ_db, order_db, row>>

\* The orders read issued on the integration database's manager.
OrdersQuery_on_integ_db ==
    \E rs \in Answers(OrderColumns, OrderRows) :
        LET e == read_sql_on(integ_db, conns, orders_query(app.site_id), rs)
            issued == [app EXCEPT !.reads = Append(@, <<"integ_db", "orders_query">>)]
        IN  /\ app.pc = "orders_query"
            /\ last' = e.out
            /\ app' = IF e.out.outcome = "raised" THEN [issued EXCEPT !.pc = "failed"]
                      ELSE [issued EXCEPT
                               !.pc = "compare",
                               !.orders_df = rename(e.out.value, "Quantity", "OrderedQty"),
                               !.shown = Append(@, "Actual Orders (Yesterday)")]
            /\ UNCHANGED <<db, conns, script, inScope, integ_db, order_db, row>>

\* lines 114-131: yesterday's orders from the order database
OrdersQuery ==
    \E rs \in Answers(OrderColumns, OrderRows) :
        LET e == read_sql_on(order_db, conns, orders_query(app.site_id), rs)
            issued == [app EXCEPT !.reads = Append(@, <<"order_db", "orders_query">>)]
        IN  /\ app.pc = "orders_query"
            /\ last' = e.out
            /\ app' = IF e.out.outcome = "raised" THEN [issued EXCEPT !.pc = "failed"]
                      ELSE [issued EXCEPT
                               !.pc = "compare",
                               !.orders_df = rename(e.out.value, "Quantity", "OrderedQty"),
                               !.shown = Append(@, "Actual Orders (Yesterday)")]
            /\ UNCHANGED <<db, conns, script, inScope, integ_db, order_db, row>>

\* lines 136-159: the outer join, the zero fill and the highlighted table
Compare ==
    /\ app.pc = "compare"
    /\ app' = [app EXCEPT
                  !.pc = "done",
                  !.comparison =
                      styled(fill_quantities(merge_outer(app.forecast_df, app.orders_df, 1))),
                  !.shown = Append(@, "Forecast vs Actual Comparison")]
    /\ UNCHANGED <<db, conns, script, inScope, last, integ_db, order_db, row>>

NextReport ==
    \/ CreateIntegDb
    \/ CreateOrderDb
    \/ SelectSite
    \/ SiteQuery
    \/ ForecastQuery
    \/ StatusQuery
    \/ OrdersQuery
    \/ Compare

SpecReport == InitReport /\ [][NextReport]_vars

----------------------------------------------------------------------------
(* SpecHighlight: one row of the comparison table, from the join to its colour *)
(* row.joined keeps the row as the join produced it; row.r is the row of the    *)
(* table, whose quantities the script overwrites                                *)

Quantities == {NaN} \cup {Num(q) : q \in 0..MaxQty}

InitHighlight ==
    /\ db = NoObject
    /\ conns = <<>>
    /\ script = <<>>
    /\ inScope = FALSE
    /\ last = NoCall
    /\ integ_db = NoObject
    /\ order_db = NoObject
    /\ app = NoApp
    /\ \E forecast \in Quantities, ordered \in Quantities :
           row = [stage |-> "merged",
                  joined |-> ComparisonRow("product", NDCs[1], forecast, ordered),
                  r |-> ComparisonRow("product", NDCs[1], forecast, ordered),
                  style |-> <<>>]

\* lines 144-145: the absent quantities become zero
FillMissing ==
    /\ row.stage = "merged"
    /\ row' = [row EXCEPT !.stage = "filled",
                          !.r.ForecastedOrderQty = fillna(@),
                          !.r.OrderedQty = fillna(@)]
    /\ UNCHANGED <<db, conns, script, inScope, last, integ_db, order_db, app>>

\* line 159: the row's colour
Highlight ==
    /\ row.stage = "filled"
    /\ row' = [row EXCEPT !.stage = "styled", !.style = highlight_qty(row.r)]
    /\ UNCHANGED <<db, conns, script, inScope, last, integ_db, order_db, app>>

NextHighlight ==
    \/ FillMissing
    \/ Highlight

SpecHighlight == InitHighlight /\ [][NextHighlight]_vars

----------------------------------------------------------------------------
(* Spec: one manager object, its methods called in any order *)

\* localRun: 'LOCAL' and two values that are not
RunModes == {"LOCAL", "AZURE", "local"}

ParamsArgs == {PyNone, PyTuple(<<>>), PyTuple(<<7>>)}
Procedures == {"usp_fill", "usp_report", "usp_raise", "usp_fill_raise"}
TempTables == {"#result", "#missing", "#corrupt"}
ProcParameters == {ParamDict(<<"SiteId">>, <<7>>), ParamList(<<7>>), ParamOther}
\* What the body of a `with` block may raise ("none": it returns normally).
BodyExceptions == {"none", DatabaseConnectionError, DriverError, "KeyError"}

Init ==
    /\ db = NoObject
    /\ conns = <<>>
    /\ script \in Queries
    /\ inScope = FALSE
    /\ last = NoCall
    /\ integ_db = NoObject
    /\ order_db = NoObject
    /\ app = NoApp
    /\ row = NoRow

\* The caller sees the effect e of calling a method with arguments args.
Called(e, args) ==
    /\ db' = e.mgr
    /\ conns' = e.conns
    /\ last' = [e.out EXCEPT !.args = args]
    /\ UNCHANGED <<integ_db, order_db, app, row>>

\* DatabaseConnection(server, database, driver, localRun): a new object.  When
\* __init__ raises, the object is left with no connection.
Construct ==
    \E database \in Databases, localRun \in RunModes, tokenOk, connectOk \in BOOLEAN :
        /\ ~inScope
        /\ Len(conns) < MaxConnects
        /\ Called(__init__(NewObject, conns, Server, database, Driver, localRun,
                           tokenOk, connectOk),
                  <<database, localRun>>)
        /\ UNCHANGED <<script, inScope>>

\* db.__init__(server, database, driver, localRun) on the object again.
Reinit ==
    \E database \in Databases, localRun \in RunModes, tokenOk, connectOk \in BOOLEAN :
        /\ db.exists
        /\ Called(__init__(db, conns, Server, database, Driver, localRun,
                           tokenOk, connectOk),
                  <<database, localRun>>)
        /\ UNCHANGED <<script, inScope>>

GetConnection ==
    /\ db.exists
    /\ Called(get_connection(db, conns), <<>>)
    /\ UNCHANGED <<script, inScope>>

CloseConnection ==
    /\ db.exists
    /\ Called(close_connection(db, conns), <<>>)
    /\ UNCHANGED <<script, inScope>>

Enter ==
    /\ db.exists
    /\ ~inScope
    /\ Called(__enter__(db, conns), <<>>)
    /\ inScope' = TRUE
    /\ UNCHANGED script

Exit ==
    \E exc_type \in BodyExceptions :
        /\ inScope
        /\ Called(with_exit(db, conns, exc_type), <<exc_type>>)
        /\ inScope' = FALSE
        /\ UNCHANGED script

ReadSql ==
    /\ db.exists
    /\ Called(read_sql(db, conns, script), <<>>)
    /\ UNCHANGED <<script, inScope>>

ExecuteQuery ==
    \E params \in ParamsArgs, cursorOk \in BOOLEAN :
        /\ db.exists
        /\ Called(execute_query(db, conns, script, params, cursorOk), <<>>)
        /\ UNCHANGED <<script, inScope>>

CallStoredProcedure ==
    \E procedure_name \in Procedures, parameters \in ProcParameters,
       temp_table_name \in TempTables, cursorOk \in BOOLEAN :
        /\ db.exists
        /\ Called(call_stored_procedure_with_select(db, conns, procedure_name,
                      parameters, temp_table_name, cursorOk),
                  <<procedure_name, parameters.shape, temp_table_name>>)
        /\ UNCHANGED <<script, inScope>>

RunScript ==
    \E params \in ParamsArgs, cursorOk \in BOOLEAN :
        /\ db.exists
        /\ Called(run_script_and_get_last_result(db, conns, script, params, cursorOk),
                  <<params>>)
        /\ UNCHANGED <<script, inScope>>

RunMultistatementScript ==
    \E cursorOk, commitOk \in BOOLEAN :
        /\ db.exists
        /\ Called(run_multistatement_script(db, conns, script, cursorOk, commitOk), <<>>)
        /\ UNCHANGED <<script, inScope>>

Next ==
    \/ Construct
    \/ Reinit
    \/ GetConnection
    \/ CloseConnection
    \/ Enter
    \/ Exit
    \/ ReadSql
    \/ ExecuteQuery
    \/ CallStoredProcedure
    \/ RunScript
    \/ RunMultistatementScript

Spec == Init /\ [][Next]_vars

----------------------------------------------------------------------------
(* SpecScript: a manager that holds a connection, and the operations that *)
(* take SQL text, on every text of up to MaxScriptLen tokens              *)

Connected ==
    __init__(NewObject, <<>>, Server, "sqldb-order-management-prd", Driver, "LOCAL",
             TRUE, TRUE)

InitScript ==
    /\ db = Connected.mgr
    /\ conns = Connected.conns
    /\ script \in Scripts
    /\ inScope = FALSE
    /\ last = NoCall
    /\ integ_db = NoObject
    /\ order_db = NoObject
    /\ app = NoApp
    /\ row = NoRow

NextScript ==
    \/ ReadSql
    \/ ExecuteQuery
    \/ RunScript
    \/ RunMultistatementScript
    \/ CloseConnection

SpecScript == InitScript /\ [][NextScript]_vars

----------------------------------------------------------------------------
(* Properties of the connection manager and the statement executor *)

\* The operations that need a connection.
AccessorOps ==
    {"get_connection", "read_sql", "execute_query", "call_stored_procedure_with_select",
     "run_script_and_get_last_result", "run_multistatement_script"}
\* The operations that obtain a cursor.
CursorOps ==
    {"execute_query", "call_stored_procedure_with_select",
     "run_script_and_get_last_result", "run_multistatement_script"}

\* How many calls of fn the call made, and how many of them succeeded.
CallsOf(out, fn) == {i \in 1..Len(out.calls) : out.calls[i].fn = fn}
Succeeded(out, fn) == {i \in CallsOf(out, fn) : out.calls[i].ok}
Failed(out, fns) == {i \in 1..Len(out.calls) : out.calls[i].fn \in fns /\ ~out.calls[i].ok}
\* Cursors the call obtained and did not close.
CursorsLeftOpen(out) ==
    Cardinality(Succeeded(out, "connection.cursor")) - Cardinality(CallsOf(out, "cursor.close"))

\* C1: whenever the manager holds no connection (never connected, or closed),
\* a call of get_connection, read_sql, execute_query,
\* call_stored_procedure_with_select, run_script_and_get_last_result or
\* run_multistatement_script raises DatabaseConnectionError, returns nothing
\* and makes no driver call, whatever was called before.
C1_NoConnectionFails ==
    [][(db.exists /\ db._connection = None /\ last'.op \in AccessorOps)
        => /\ last'.outcome = "raised"
           /\ last'.error = DatabaseConnectionError
           /\ last'.value = Raised
           /\ last'.calls = <<>>]_vars

C1_Witness ==
    /\ last.op = "call_stored_procedure_with_select"
    /\ last.error = DatabaseConnectionError
    /\ db._connection = None
    /\ Len(conns) = 1 /\ conns[1].closes = 1

\* C2: close_connection called right after close_connection raises nothing,
\* calls the driver no more and changes neither the manager nor the driver's
\* connections; close_connection never raises and no driver connection is
\* closed more than once.
C2_CloseIdempotent ==
    /\ [](/\ last.op = "close_connection" => last.outcome = "returned"
          /\ \A c \in 1..Len(conns) : conns[c].closes <= 1)
    /\ [][(last.op = "close_connection" /\ last'.op = "close_connection")
          => /\ last'.outcome = "returned"
             /\ last'.calls = <<>>
             /\ db' = db
             /\ conns' = conns]_vars

C2_Witness ==
    /\ last.op = "close_connection"
    /\ last.calls = <<>>
    /\ db._connection = None
    /\ Len(conns) = 1 /\ conns[1].closes = 1 /\ ~conns[1].open

\* C3 (as claimed): no executor operation ends, by return or by raise, with a
\* cursor it obtained still open.
C3_EveryCursorReleased ==
    last.op \in CursorOps => CursorsLeftOpen(last) = 0

\* C4: execute_query closes the cursor exactly once when it obtained one (and
\* makes no close call when it obtained none), the close is its last driver
\* call, and when it fails the error raised is DatabaseConnectionError.
C4_ExecuteQueryReleasesCursor ==
    last.op = "execute_query" =>
        /\ Cardinality(CallsOf(last, "cursor.close"))
               = Cardinality(Succeeded(last, "connection.cursor"))
        /\ Cardinality(CallsOf(last, "cursor.close")) <= 1
        /\ CallsOf(last, "cursor.close") # {} => last.calls[Len(last.calls)] = close_call
        /\ last.outcome = "raised" => last.error = DatabaseConnectionError
        /\ Failed(last, {"connection.cursor", "cursor.execute", "cursor.fetchall"}) # {}
               => last.outcome = "raised"

C4_Witness ==
    /\ last.op = "execute_query"
    /\ last.outcome = "raised"
    /\ Failed(last, {"cursor.execute"}) # {}
    /\ last.calls[Len(last.calls)] = close_call

\* C5 (as claimed): in every operation but call_stored_procedure_with_select a
\* failed driver call reaches the caller as DatabaseConnectionError, never as
\* the driver's own error.
C5_DriverErrorsWrapped ==
    (last.op \in AccessorOps \ {"call_stored_procedure_with_select"}
        /\ Failed(last, {"connection.cursor", "cursor.execute", "cursor.nextset",
                         "cursor.fetchall", "connection.commit", "pd.read_sql"}) # {})
    => (last.outcome = "raised" /\ last.error = DatabaseConnectionError)

\* C6: with a connection held, call_stored_procedure_with_select never raises;
\* when the cursor call, the execute or a nextset fails it logs an error and
\* returns None.
C6_ProcedureErrorsReturnNone ==
    (last.op = "call_stored_procedure_with_select" /\ db._connection # None) =>
        /\ last.outcome = "returned"
        /\ Failed(last, {"connection.cursor", "cursor.execute", "cursor.nextset"}) # {}
               => (last.value = NoneValue /\ last.logs = <<"error">>)

C6_Witness ==
    /\ last.op = "call_stored_procedure_with_select"
    /\ Failed(last, {"cursor.nextset"}) # {}
    /\ last.value = NoneValue
    /\ last.logs = <<"error">>

\* The final batch of the script under test and its resultsets.
FinalBatch == batches_of(script)[Len(batches_of(script))]
FinalResults == BatchResults(FinalBatch)
\* Resultset k of the final batch is its first with a column descriptor.
FirstDescribed(k) ==
    /\ k \in 1..Len(FinalResults)
    /\ HasDescription(FinalResults, k)
    /\ \A j \in 1..(k - 1) : FinalResults[j].kind = "nodesc"

\* C7: run_script_and_get_last_result returns only the table of the first
\* resultset of the final batch that has a column descriptor (the earlier
\* resultsets of that batch have none; earlier batches contribute nothing),
\* returns it whenever no driver call fails, and raises when the final batch
\* yields no column descriptor.  On SELECT 1 / SELECT 2 WHERE 1=0 /
\* SELECT 3 AS x it returns column x with the one row 3.
C7_LastResult ==
    (last.op = "run_script_and_get_last_result" /\ db._connection # None) =>
        /\ last.outcome = "returned" =>
               /\ batches_of(script) # <<>>
               /\ \E k \in 1..Len(FinalResults) :
                   /\ FirstDescribed(k)
                   /\ last.value = DataFrame(FinalResults[k].columns, FinalResults[k].rows)
        /\ (Failed(last, {"connection.cursor", "cursor.execute", "cursor.nextset",
                           "cursor.fetchall"}) = {}
              /\ batches_of(script) # <<>>
              /\ \E k \in 1..Len(FinalResults) : FirstDescribed(k))
               => last.outcome = "returned"
        /\ (batches_of(script) # <<>>
              /\ \A k \in 1..Len(FinalResults) : ~HasDescription(FinalResults, k))
               => last.outcome = "raised"
        /\ (script = ExampleScript /\ Failed(last, {"connection.cursor"}) = {})
               => last.value = DataFrame(<<"x">>, << <<3>> >>)

C7_Witness ==
    /\ script = ExampleScript
    /\ last.op = "run_script_and_get_last_result"
    /\ last.value = DataFrame(<<"x">>, << <<3>> >>)

C7_WitnessSkip ==
    /\ script = <<UPDATE, SELECT_3>>
    /\ last.op = "run_script_and_get_last_result"
    /\ last.value = DataFrame(<<"x">>, << <<3>> >>)

\* C10: leaving a `with db:` block, by return or by exception, closes the
\* connection the manager held and leaves the manager holding none; an
\* exception of the body is raised to the caller, and without one the
\* block ends normally.
C10_ScopeExitCloses ==
    [][(inScope /\ ~inScope')
        => /\ last'.op = "__exit__"
           /\ db'._connection = None
           /\ db._connection # None
                  => /\ ~conns'[db._connection].open
                     /\ Cardinality(CallsOf(last', "connection.close")) = 1
           /\ last'.args[1] # "none"
                  => (last'.outcome = "raised" /\ last'.error = last'.args[1])
           /\ last'.args[1] = "none" => last'.outcome = "returned"]_vars

C10_Witness ==
    /\ last.op = "__exit__"
    /\ last.outcome = "raised"
    /\ last.error = "KeyError"
    /\ CallsOf(last, "connection.close") # {}
    /\ db._connection = None


----------------------------------------------------------------------------
(* Properties of the report script *)

Red == "background-color: lightcoral"
Green == "background-color: lightgreen"
Yellow == "background-color: lightyellow"
Colours == {Red, Green, Yellow}

\* The colour of the row whose filled quantities are f and o, when styled.
ColouredAs(f, o, colour) ==
    (row.stage = "styled" /\ row.r.ForecastedOrderQty = Num(f) /\ row.r.OrderedQty = Num(o))
        => row.style[1] = colour

\* C8: once the absent quantities are filled with zero, highlight_qty gives
\* every cell of the row the same one colour: red when at least one of the
\* two quantities is zero (both zero and an absent side included), green
\* when they are equal and not zero, yellow otherwise; (5,5) is green, (5,0)
\* red, (5,3) yellow and (absent,5) red.
C8_HighlightColours ==
    row.stage = "styled" =>
        LET f == row.r.ForecastedOrderQty
            o == row.r.OrderedQty
            colour == row.style[1]
        IN  /\ ~f.na /\ ~o.na
            /\ f.v = (IF row.joined.ForecastedOrderQty.na THEN 0
                      ELSE row.joined.ForecastedOrderQty.v)
            /\ o.v = (IF row.joined.OrderedQty.na THEN 0 ELSE row.joined.OrderedQty.v)
            /\ Len(row.style) = Len(ComparisonColumns)
            /\ \A i \in 1..Len(row.style) : row.style[i] = colour
            /\ colour \in Colours
            /\ colour = Red <=> (f.v = 0 \/ o.v = 0)
            /\ colour = Green <=> (f.v = o.v /\ f.v # 0)
            /\ colour = Yellow <=> (f.v # o.v /\ f.v # 0 /\ o.v # 0)
            /\ (row.joined.ForecastedOrderQty.na \/ row.joined.OrderedQty.na) => colour = Red
            /\ ColouredAs(5, 5, Green)
            /\ ColouredAs(5, 0, Red)
            /\ ColouredAs(5, 3, Yellow)
            /\ (row.joined.ForecastedOrderQty.na /\ row.joined.OrderedQty = Num(5))
                   => colour = Red

\* The row whose forecast is absent and whose order is 5, coloured red.
C8_Witness ==
    /\ row.stage = "styled"
    /\ row.joined.ForecastedOrderQty = NaN
    /\ row.joined.OrderedQty = Num(5)
    /\ row.r.ForecastedOrderQty = Num(0)
    /\ row.style = <<Red, Red, Red, Red>>

Issued(manager, query) == \E i \in 1..Len(app.reads) : app.reads[i] = <<manager, query>>
StatusFetched == app.status_df # NoFrame
HasStatus1Or6 ==
    \E r \in 1..Len(app.status_df.rows) : app.status_df.rows[r][1] \in {1, 6}
ComparisonShown ==
    \E i \in 1..Len(app.shown) : app.shown[i] = "Forecast vs Actual Comparison"

\* C9: when a fetched order-status row has OrderStatusId 1 or 6 the script
\* stops right after the status query: the orders query is not issued and
\* no comparison is produced; when no fetched row has such a status the
\* script goes on to the orders query and, from its answer, to the
\* comparison.
C9_StatusGuard ==
    /\ (StatusFetched /\ HasStatus1Or6) =>
           /\ app.pc = "stopped"
           /\ ~Issued("order_db", "orders_query")
           /\ app.orders_df = NoFrame
           /\ app.comparison = <<>>
           /\ ~ComparisonShown
           /\ app.reads[Len(app.reads)] = <<"order_db", "status_query">>
    /\ (StatusFetched /\ ~HasStatus1Or6) =>
           /\ app.pc \in {"orders_query", "compare", "done", "failed"}
           /\ app.pc # "orders_query" => Issued("order_db", "orders_query")
           /\ app.pc = "failed" =>
                  /\ last.outcome = "raised"
                  /\ app.reads[Len(app.reads)] = <<"order_db", "orders_query">>
           /\ app.pc = "done" => ComparisonShown
    /\ Issued("order_db", "orders_query") => (StatusFetched /\ ~HasStatus1Or6)
    /\ ComparisonShown => (app.pc = "done" /\ StatusFetched /\ ~HasStatus1Or6)

\* The statuses of the site hold a 6 and the script has stopped at the guard.
C9_Witness ==
    /\ app.pc = "stopped"
    /\ StatusFetched
    /\ \E r \in 1..Len(app.status_df.rows) : app.status_df.rows[r][1] = 6
    /\ Issued("order_db", "status_query")
    /\ ~Issued("order_db", "orders_query")

\* The statuses hold neither 1 nor 6 and the comparison has been shown.
C9_WitnessProceeds ==
    /\ app.pc = "done"
    /\ StatusFetched
    /\ ~HasStatus1Or6
    /\ app.status_df.rows # <<>>
    /\ ComparisonShown
    /\ app.comparison # <<>>


----------------------------------------------------------------------------
(* Properties of construction *)

\* The last call was a construction that ran the connection setup.
SetupRan == last.op = "__init__" /\ last.calls # <<>>
ConnectCalls == CallsOf(last, "pyodbc.connect")
MsiSuffix == ";Authentication=ActiveDirectoryMsi"
\* The connect call took the managed-identity path / the token-attribute path.
IsMsiConnect(c) == c.arg[Len(c.arg)] = MsiSuffix /\ ~c.params.passed
IsTokenConnect(c) ==
    /\ c.arg[Len(c.arg)] # MsiSuffix
    /\ c.params.passed
    /\ c.params.values[1] = 1256

\* C11: a construction takes the token-attribute path iff the flag is
\* 'LOCAL' and the managed-identity path for every other flag, and the flag
\* decides nothing else: the token is requested first, one connect call
\* follows it, and a failing token request or connect raises
\* DatabaseConnectionError (logged) and leaves no connection held.
C11_AuthPathByFlag ==
    SetupRan =>
        LET localRun == last.args[2]
            failed == Failed(last, {"get_token", "pyodbc.connect"}) # {}
        IN  /\ last.calls[1].fn = "get_token"
            /\ Cardinality(CallsOf(last, "get_token")) = 1
            /\ Len(last.calls) = (IF last.calls[1].ok THEN 2 ELSE 1)
            /\ Cardinality(ConnectCalls) = (IF last.calls[1].ok THEN 1 ELSE 0)
            /\ \A i \in ConnectCalls :
                   /\ i = 2
                   /\ localRun = "LOCAL" <=> IsTokenConnect(last.calls[i])
                   /\ localRun # "LOCAL" <=> IsMsiConnect(last.calls[i])
                   /\ SubSeq(last.calls[i].arg, 1, 6) =
                          <<"DRIVER=", Driver, ";SERVER=", Server, ";DATABASE=", last.args[1]>>
            /\ failed <=> last.outcome = "raised"
            /\ failed =>
                   /\ last.error = DatabaseConnectionError
                   /\ db._connection = None
                   /\ \E i \in 1..Len(last.logs) : last.logs[i] = "error"
            /\ ~failed =>
                   /\ last.outcome = "returned"
                   /\ db._connection # None
                   /\ conns[db._connection].open
                   /\ \A i \in 1..Len(last.logs) : last.logs[i] # "error"

\* A construction with a flag that is not 'LOCAL' (it differs in case only)
\* connected by managed identity.
C11_Witness ==
    /\ SetupRan
    /\ last.args[2] = "local"
    /\ last.outcome = "returned"
    /\ IsMsiConnect(last.calls[2])
    /\ db._connection # None


\* The last call closed the connection the manager held.
JustClosed ==
    /\ db.exists
    /\ db._connection = None
    /\ last.op \in {"close_connection", "__exit__"}
    /\ Cardinality(CallsOf(last, "connection.close")) = 1

\* C12: after close_connection on a manager that held a connection, calling
\* __init__ on that manager again runs the connection setup again: the
\* token is requested and connect is called, and when both succeed the
\* manager holds an open connection once more.
C12_ReinitAfterClose ==
    [][(JustClosed /\ last'.op = "__init__") =>
           /\ last'.calls # <<>>
           /\ Cardinality({i \in 1..Len(last'.calls) :
                              last'.calls[i].fn = "pyodbc.connect"}) = 1
           /\ (\A i \in 1..Len(last'.calls) : last'.calls[i].ok) =>
                  /\ db'._connection # None
                  /\ conns'[db'._connection].open]_vars


OpenConnections == {i \in 1..Len(conns) : conns[i].open}

\* C13: DatabaseConnection is a singleton: every construction yields the
\* same manager and the same one connection, so the two constructions of
\* the report script (different databases) never give two distinct live
\* connections.
C13_Singleton ==
    /\ Cardinality(OpenConnections) <= 1
    /\ (integ_db._connection # None /\ order_db._connection # None) =>
           /\ integ_db = order_db
           /\ integ_db._connection = order_db._connection


----------------------------------------------------------------------------
(* Properties of the statement executor: order of the driver calls *)

\* The resultsets the database produces for the procedure and the SELECT of
\* the call whose arguments are args, in order.
ProcedureResults(args) == StatementResults(args[1]) \o StatementResults(args[3])
Materializable(rs) == {i \in 1..Len(rs) : rs[i].kind = "table"}
FirstMaterializable(rs) == CHOOSE i \in Materializable(rs) : \A j \in Materializable(rs) : i <= j
\* The call reached the driver and no cursor(), execute() or nextset() failed.
ProcedureRanClean ==
    /\ last.op = "call_stored_procedure_with_select"
    /\ last.calls # <<>>
    /\ Failed(last, {"connection.cursor", "cursor.execute", "cursor.nextset"}) = {}

\* C14: with a connection held and no driver error,
\* call_stored_procedure_with_select returns the first resultset, in the
\* order the batch produces them, that has a column descriptor and
\* fetchable rows, having advanced past every earlier one; when no
\* resultset can be materialized it returns an empty table, not None.
C14_FirstMaterializable ==
    ProcedureRanClean =>
        LET rs == ProcedureResults(last.args)
            nextsets == Cardinality(CallsOf(last, "cursor.nextset"))
        IN  /\ last.outcome = "returned"
            /\ last.value.kind = "DataFrame"
            /\ Cardinality(CallsOf(last, "cursor.execute")) = 1
            /\ IF Materializable(rs) # {}
               THEN /\ last.value.columns = rs[FirstMaterializable(rs)].columns
                    /\ last.value.rows = rs[FirstMaterializable(rs)].rows
                    /\ nextsets = FirstMaterializable(rs) - 1
                    /\ last.logs = <<>>
               ELSE /\ last.value.columns = <<>>
                    /\ last.value.rows = <<>>
                    /\ nextsets = Len(rs)
                    /\ last.logs = <<"warning">>

\* The procedure's own resultsets are a row count and a table: the row count
\* is skipped and the procedure's table, not the temp table, is returned.
C14_Witness ==
    /\ ProcedureRanClean
    /\ last.args[1] = "usp_report"
    /\ last.args[3] = "#result"
    /\ last.value = DataFrame(<<"n">>, << <<7>> >>)
    /\ Cardinality(CallsOf(last, "cursor.nextset")) = 1

\* No resultset converts (a row count, then rows that cannot be fetched): the
\* empty table is returned.
C14_WitnessEmpty ==
    /\ ProcedureRanClean
    /\ last.args[1] = "usp_fill"
    /\ last.args[3] = "#corrupt"
    /\ last.value = EmptyDataFrame


\* The positions in the last call's driver calls of the calls of fn, in order.
Positions(fn) ==
    SelectSeq([i \in 1..Len(last.calls) |-> i], LAMBDA i : last.calls[i].fn = fn)
\* run_script_and_get_last_result was called and obtained its cursor.
ScriptRan ==
    /\ last.op = "run_script_and_get_last_result"
    /\ last.calls # <<>>
    /\ last.calls[1].fn = "connection.cursor"
    /\ last.calls[1].ok
FirstFailure ==
    CHOOSE i \in 1..Len(last.calls) :
        ~last.calls[i].ok /\ \A j \in 1..(i - 1) : last.calls[j].ok

\* C15: run_script_and_get_last_result executes the non-empty batches in
\* script order, each once; every batch but the last without parameters and
\* with all its resultsets advanced past before the next batch starts; the
\* supplied parameters go to the final batch only, which is executed once
\* all earlier batches have completed; after a failing batch no later batch
\* is executed.
C15_BatchesInOrder ==
    ScriptRan =>
        LET B == batches_of(script)
            E == Positions("cursor.execute")
            params == last.args[1]
            failed == \E i \in 1..Len(last.calls) : ~last.calls[i].ok
        IN  /\ Len(E) <= Len(B)
            /\ \A j \in 1..Len(E) : last.calls[E[j]].arg = B[j]
            /\ \A j \in 1..Len(E) : j < Len(B) => ~last.calls[E[j]].params.passed
            /\ \A j \in 1..(Len(E) - 1) :
                   LET between == (E[j] + 1)..(E[j + 1] - 1)
                       n == Len(BatchResults(B[j]))
                   IN  /\ \A i \in between :
                              last.calls[i].fn = "cursor.nextset" /\ last.calls[i].ok
                       /\ Cardinality(between) = (IF n = 0 THEN 1 ELSE n)
            /\ (Len(E) = Len(B) /\ B # <<>>) =>
                   LET final == last.calls[E[Len(E)]]
                   IN  IF params.isNone \/ params.values = <<>>
                       THEN ~final.params.passed
                       ELSE final.params.passed /\ final.params.values = params.values
            /\ failed => \A j \in 1..Len(E) : E[j] <= FirstFailure
            /\ Len(E) < Len(B) => (failed /\ FirstFailure >= E[Len(E)]
                                   /\ last.calls[FirstFailure].fn
                                          \in {"cursor.execute", "cursor.nextset"})

\* Three batches, the third executed with the parameters supplied.
C15_Witness ==
    /\ ScriptRan
    /\ Len(batches_of(script)) = 3
    /\ Len(Positions("cursor.execute")) = 3
    /\ last.args[1] = PyTuple(<<7>>)
    /\ last.calls[Positions("cursor.execute")[3]].params = Args(<<7>>)
    /\ ~last.calls[Positions("cursor.execute")[1]].params.passed
    /\ last.outcome = "returned"

\* The first of two batches fails and the second is never executed.
C15_WitnessFailure ==
    /\ ScriptRan
    /\ Len(batches_of(script)) = 2
    /\ Len(Positions("cursor.execute")) = 1
    /\ last.outcome = "raised"


\* run_multistatement_script was called and obtained its cursor.
MultistatementRan ==
    /\ last.op = "run_multistatement_script"
    /\ last.calls # <<>>
    /\ last.calls[1].fn = "connection.cursor"
    /\ last.calls[1].ok
\* The statements of the script that are not empty, in order.
NonEmptyStatements == SelectSeq(split(strip(script), SEMI), LAMBDA t : strip(t) # <<>>)

\* C16: run_multistatement_script executes each non-empty statement of the
\* script once, in script order, skipping the empty ones, and commits
\* once, after every statement has executed successfully; when a statement
\* fails, commit is not called.
C16_StatementsThenCommit ==
    MultistatementRan =>
        LET S == NonEmptyStatements
            E == Positions("cursor.execute")
            C == Positions("connection.commit")
            stmtFailed == \E j \in 1..Len(E) : ~last.calls[E[j]].ok
        IN  /\ Len(E) <= Len(S)
            /\ \A j \in 1..Len(E) :
                   last.calls[E[j]].arg = S[j] /\ ~last.calls[E[j]].params.passed
            /\ \A j \in 1..(Len(E) - 1) : last.calls[E[j]].ok
            /\ Len(C) <= 1
            /\ Len(C) = 1 <=> (Len(E) = Len(S) /\ ~stmtFailed)
            /\ Len(C) = 1 => /\ C[1] = Len(last.calls)
                             /\ \A j \in 1..Len(E) : E[j] < C[1]
            /\ stmtFailed => (Len(C) = 0 /\ last.outcome = "raised")
            /\ Len(E) < Len(S) => stmtFailed
            /\ last.outcome = "returned" <=> (Len(C) = 1 /\ last.calls[C[1]].ok)

\* Two statements executed in order, then the commit.
C16_Witness ==
    /\ MultistatementRan
    /\ Len(NonEmptyStatements) = 2
    /\ Len(Positions("cursor.execute")) = 2
    /\ Positions("connection.commit") = <<4>>
    /\ last.outcome = "returned"

\* An empty statement is skipped: fewer execute calls than delimiters.
C16_WitnessSkip ==
    /\ MultistatementRan
    /\ Len(split(strip(script), SEMI)) = 3
    /\ Len(Positions("cursor.execute")) = 1
    /\ last.outcome = "returned"

\* The first of two statements fails: the second is not executed and there is
\* no commit.
C16_WitnessFailure ==
    /\ MultistatementRan
    /\ Len(NonEmptyStatements) = 2
    /\ Len(Positions("cursor.execute")) = 1
    /\ Positions("connection.commit") = <<>>


----------------------------------------------------------------------------
(* Properties of the held connection handle *)

ReleasingOps == {"close_connection", "__exit__"}

\* C17: read_sql, execute_query, call_stored_procedure_with_select,
\* run_script_and_get_last_result, run_multistatement_script and
\* get_connection leave the manager's connection handle as it was, whether
\* they succeed or fail; a held handle is released and set to None by
\* close_connection or by leaving the scope only.  (A construction makes a
\* new manager; it does not act on the handle of the one before.)
C17_HandleKept ==
    [][/\ last'.op \in AccessorOps =>
              /\ db'._connection = db._connection
              /\ conns' = conns
       /\ (db._connection # None /\ db'._connection # db._connection) =>
              \/ last'.op \in ReleasingOps /\ db'._connection = None
              \/ last'.op = "__init__" /\ last'.calls # <<>>
       /\ \A c \in 1..Len(conns) :
              (conns[c].open /\ ~conns'[c].open) => last'.op \in ReleasingOps]_vars

\* An executor operation failed at the driver and the connection is still
\* held and open.
C17_Witness ==
    /\ last.op \in CursorOps \cup {"read_sql"}
    /\ last.outcome = "raised"
    /\ last.calls # <<>>
    /\ db._connection # None
    /\ conns[db._connection].open


----------------------------------------------------------------------------
(* Properties of the report script: its reads *)

\* The run went through: a site selected and found, no status 1 or 6.
CompleteRun == app.pc = "done"
\* How many reads have been issued when the script is at pc.
ReadsBefore(pc) ==
    CASE pc \in {"integ_db", "order_db", "select_site", "site_query"} -> 0
      [] pc = "forecast_query" -> 1
      [] pc = "status_query" -> 2
      [] pc = "orders_query" -> 3
      [] pc \in {"compare", "done"} -> 4

\* C18 as stated: a complete run of the report script issues five
\* sequential read_sql calls, split across the two managers.
C18_FiveReads ==
    CompleteRun =>
        /\ Len(app.reads) = 5
        /\ \E i, j \in 1..Len(app.reads) :
               app.reads[i][1] = "integ_db" /\ app.reads[j][1] = "order_db"

\* C18 as amended: a complete run of the report script issues four
\* sequential read_sql calls, the site and forecast queries on the
\* integration database's manager and then the status and orders queries on
\* the order database's manager, each issued after the one before it has
\* returned.
C18_FourReads ==
    /\ CompleteRun =>
           /\ app.reads = << <<"integ_db", "site_query">>, <<"integ_db", "forecast_query">>,
                             <<"order_db", "status_query">>, <<"order_db", "orders_query">> >>
           /\ integ_db._connection # None
           /\ order_db._connection # None
           /\ integ_db._connection # order_db._connection
    /\ app.pc \notin {"stopped", "failed"} => Len(app.reads) = ReadsBefore(app.pc)
    /\ (app.pc = "failed" /\ app.reads # <<>>) =>
           (last.op = "read_sql" /\ last.outcome = "raised")
    /\ (app.reads # <<>> /\ app.pc # "failed") =>
           (last.op = "read_sql" /\ last.outcome = "returned")

\* A complete run, its four reads made.
C18_Witness ==
    /\ CompleteRun
    /\ Len(app.reads) = 4
    /\ app.reads[4] = <<"order_db", "orders_query">>
    /\ ComparisonShown


----------------------------------------------------------------------------
(* Properties of the statement executor: a script without a batch *)

\* The script is empty, or whitespace and batch delimiters only.
NoBatch == \A i \in 1..Len(script) : script[i] \in {WS, GO}

\* C19: run_script_and_get_last_result on a script with no non-empty batch
\* fails with an error, passes no statement to the driver, and closes the
\* cursor it opened before the error reaches the caller.
C19_NoBatchFails ==
    (ScriptRan /\ NoBatch) =>
        /\ last.outcome = "raised"
        /\ last.error = IndexError
        /\ Positions("cursor.execute") = <<>>
        /\ Positions("cursor.nextset") = <<>>
        /\ Positions("cursor.fetchall") = <<>>
        /\ Positions("cursor.close") = <<Len(last.calls)>>
        /\ CursorsLeftOpen(last) = 0
        /\ db._connection # None

\* A script of whitespace around one batch delimiter.
C19_Witness ==
    /\ ScriptRan
    /\ script = <<WS, GO, WS>>
    /\ last.outcome = "raised"
    /\ last.calls = <<cursor_call(TRUE), close_call>>

\* The empty script, with parameters supplied.
C19_WitnessEmpty ==
    /\ ScriptRan
    /\ script = <<>>
    /\ last.args[1] = PyTuple(<<7>>)
    /\ last.error = IndexError

====
